---- MODULE Spec2Model ----
(***************************************************************************)
(* Model of dashboard_cloud.py, the Streamlit GL Recovery Dashboard.       *)
(*                                                                         *)
(* A Streamlit script is re-executed from top to bottom on every user      *)
(* interaction.  The state that survives between two executions is the     *)
(* state of the widgets (the two file uploaders, the page radio, the       *)
(* checkboxes, the text input); everything else is recomputed.  Each       *)
(* action below is one interaction followed by the whole re-execution of   *)
(* the script (RunScript), whose rendered output is kept in `view`.        *)
(*                                                                         *)
(* Representation of spreadsheet cells:                                    *)
(*   - a text cell is a non-empty sequence of one-character strings;       *)
(*     the empty sequence is the empty cell, which pandas reads as NaN;    *)
(*   - GL codes are integers;                                              *)
(*   - names and categories are strings, NaN being the empty cell;         *)
(*   - amounts are whole numbers (no fractional part is modelled).         *)
(*                                                                         *)
(* Widgets: Streamlit discards the state of a widget that an execution     *)
(* does not render, so a checkbox that reappears is checked again and the  *)
(* radio is back on Dashboard Home after an execution that stopped before  *)
(* it.  A file is replaced by removing it and uploading another one; the   *)
(* same states are reached when a file is replaced in one step.            *)
(*                                                                         *)
(* Exceptions: an uncaught exception ends the execution; what was rendered *)
(* before it stays in `view`, with view.exception set.                     *)
(*                                                                         *)
(* Two specifications: Spec is the three pages on dumps and description    *)
(* tables without unreadable cells; SpecLoad is the loading pipeline alone *)
(* (first rendering of Dashboard Home) on files with amounts that are no   *)
(* number, empty cells and missing columns.                                *)
(***************************************************************************)
EXTENDS Integers, Sequences, FiniteSets, TLC

\* ------------------------------------------------------------------------
\* Bounds of the model
\* ------------------------------------------------------------------------
MaxDumpRows == 2
MaxDescRows == 2

\* ------------------------------------------------------------------------
\* Generic helpers
\* ------------------------------------------------------------------------
SeqsUpTo(S, n) == UNION {[1..k -> S] : k \in 0..n}

Range(s) == {s[i] : i \in 1..Len(s)}

RECURSIVE SumAmount(_)
SumAmount(rows) ==
    IF rows = <<>> THEN 0 ELSE rows[1].Amount.v + SumAmount(Tail(rows))

\* nunique(): number of distinct non-null values of a column
NUnique(vals, nulls) == Cardinality(Range(vals) \ nulls)

\* ------------------------------------------------------------------------
\* Cell values
\* ------------------------------------------------------------------------
NaN == "<NaN>"
NaNCell == <<>>
NaNAmount == [nan |-> TRUE, v |-> 0]

Digits == {"0", "1", "2", "3", "4", "5", "6", "7", "8", "9"}

DigitVal(c) ==
    CASE c = "0" -> 0 [] c = "1" -> 1 [] c = "2" -> 2 [] c = "3" -> 3
      [] c = "4" -> 4 [] c = "5" -> 5 [] c = "6" -> 6 [] c = "7" -> 7
      [] c = "8" -> 8 [] c = "9" -> 9

RECURSIVE DigitsValue(_, _)
DigitsValue(cs, acc) ==
    IF cs = <<>> THEN acc
    ELSE DigitsValue(Tail(cs), 10 * acc + DigitVal(cs[1]))

AllDigits(cs) == cs # <<>> /\ \A i \in 1..Len(cs) : cs[i] \in Digits

\* pd.to_numeric(cell, errors='coerce'): the number the text denotes, NaN
\* when it denotes none (and for the empty cell)
to_numeric_nocoerce(cell) ==
    IF cell = NaNCell THEN NaNAmount
    ELSE IF AllDigits(cell) THEN [nan |-> FALSE, v |-> DigitsValue(cell, 0)]
    ELSE IF cell[1] = "-" /\ AllDigits(Tail(cell))
         THEN [nan |-> FALSE, v |-> 0 - DigitsValue(Tail(cell), 0)]
    ELSE [nan |-> FALSE, v |-> 0]

to_numeric(cell) ==
    IF cell = NaNCell THEN NaNAmount
    ELSE IF AllDigits(cell) THEN [nan |-> FALSE, v |-> DigitsValue(cell, 0)]
    ELSE IF cell[1] = "-" /\ AllDigits(Tail(cell))
         THEN [nan |-> FALSE, v |-> 0 - DigitsValue(Tail(cell), 0)]
    ELSE NaNAmount

\* ------------------------------------------------------------------------
\* Uploaded files
\* ------------------------------------------------------------------------
\* The dump's fixed column positions
gl_col == 1
order_col == 6
amount_col == 12

\* No file in an uploader
NoFile == [kind |-> "none", ncols |-> 0, rows |-> <<>>]

\* pd.read_excel(file): raises on a file that is no workbook
read_excel(file) ==
    IF file.kind = "ok" THEN [raised |-> FALSE, df |-> file]
    ELSE [raised |-> TRUE, df |-> NoFile]

load_gl_dump_from_upload(file) ==
    LET r == read_excel(file) IN
    IF r.raised
    THEN [df |-> NoFile, isNone |-> TRUE, errors |-> {"Error reading GL dump file"}]
    ELSE [df |-> r.df, isNone |-> FALSE, errors |-> {}]

EmptyDict == <<>>

\* dict(zip(keys, vals)): a later pair replaces an earlier one with its key
RECURSIVE DictZipFrom(_, _, _, _)
DictZipFrom(d, rows, key, val) ==
    IF rows = <<>> THEN d
    ELSE LET k == rows[1][key]
             e == [x \in (DOMAIN d) \cup {k} |->
                      IF x = k THEN rows[1][val] ELSE d[x]]
         IN DictZipFrom(e, Tail(rows), key, val)

RECURSIVE DictZipFirstFrom(_, _, _, _)
DictZipFirstFrom(d, rows, key, val) ==
    IF rows = <<>> THEN d
    ELSE LET k == rows[1][key]
             e == [x \in (DOMAIN d) \cup {k} |->
                      IF x \in DOMAIN d THEN d[x] ELSE rows[1][val]]
         IN DictZipFirstFrom(e, Tail(rows), key, val)

DictZipFirst(rows, key, val) == DictZipFirstFrom(EmptyDict, rows, key, val)

DictZip(rows, key, val) == DictZipFrom(EmptyDict, rows, key, val)

\* df.iloc[:, 1] raises IndexError on a table of fewer than two columns;
\* the bare except turns every exception into the pair of empty dicts
load_gl_descriptions_from_upload(file) ==
    LET r == read_excel(file) IN
    IF r.raised \/ r.df.ncols < 2
    THEN [gl_name_dict |-> EmptyDict, gl_category_dict |-> EmptyDict,
          errors |-> {"Error reading GL Description file"}]
    ELSE [gl_name_dict |-> DictZip(r.df.rows, "code", "name"),
          gl_category_dict |->
              IF r.df.ncols >= 3 THEN DictZip(r.df.rows, "code", "cat")
              ELSE EmptyDict,
          errors |-> {}]

DictGet(d, k, default) == IF k \in DOMAIN d THEN d[k] ELSE default

get_gl_name(gl_code, gl_dict) == DictGet(gl_dict, gl_code, "Unknown GL")

get_gl_category(gl_code, gl_cat_dict) == DictGet(gl_cat_dict, gl_code, "Uncategorized")

\* One row of the dump with the five derived columns attached; idx is the
\* row's label in the DataFrame index, which every later filter keeps
NormalizeRow(i, r, gl_name_dict, gl_category_dict) ==
    [idx |-> i,
     GL_Code |-> r.gl,
     GL_Description |-> get_gl_name(r.gl, gl_name_dict),
     Category |-> get_gl_category(r.gl, gl_category_dict),
     Order |-> r.order,
     Amount |-> to_numeric(r.amount)]

NotNaAmount(row) == ~row.Amount.nan

\* process_gl_data: df_copy[amount_col] raises KeyError on a dump of fewer
\* than amount_col + 1 columns; rows whose Amount is NaN are dropped
process_gl_data(df, gl_name_dict, gl_category_dict) ==
    IF df.ncols <= amount_col
    THEN [raised |-> TRUE, data |-> <<>>]
    ELSE [raised |-> FALSE,
          data |-> SelectSeq(
              [i \in 1..Len(df.rows) |->
                  NormalizeRow(i, df.rows[i], gl_name_dict, gl_category_dict)],
              NotNaAmount)]

\* ------------------------------------------------------------------------
\* Column helpers
\* ------------------------------------------------------------------------
Column(rows, name) == [i \in 1..Len(rows) |-> rows[i][name]]

\* sorted() of a set of integers
RECURSIVE SortedInts(_)
SortedInts(S) ==
    IF S = {} THEN <<>>
    ELSE LET m == CHOOSE x \in S : \A y \in S : x <= y
         IN <<m>> \o SortedInts(S \ {m})

\* The category literals of the model in the order of Python's string "<"
StringOrder == <<"Fuel", "Travel", "Uncategorized">>

\* sorted() of a set of strings
SortedStrings(S) == SelectSeq(StringOrder, LAMBDA x : x \in S)

\* Lexicographic "<" on texts whose characters are digits
RECURSIVE TextLess(_, _)
TextLess(a, b) ==
    IF b = <<>> THEN FALSE
    ELSE IF a = <<>> THEN TRUE
    ELSE IF a[1] = b[1] THEN TextLess(Tail(a), Tail(b))
    ELSE DigitVal(a[1]) < DigitVal(b[1])

RECURSIVE SortedTexts(_)
SortedTexts(S) ==
    IF S = {} THEN <<>>
    ELSE LET m == CHOOSE x \in S : \A y \in S \ {x} : TextLess(x, y)
         IN <<m>> \o SortedTexts(S \ {m})

\* Insertion of a summary row into a sequence kept in descending order of
\* Total, after the rows of equal total already there
RECURSIVE InsertDesc(_, _)
InsertDesc(sorted, r) ==
    IF sorted = <<>> THEN <<r>>
    ELSE IF sorted[1].Total >= r.Total
         THEN <<sorted[1]>> \o InsertDesc(Tail(sorted), r)
         ELSE <<r>> \o sorted

RECURSIVE SortDescFrom(_, _)
SortDescFrom(acc, rows) ==
    IF rows = <<>> THEN acc
    ELSE SortDescFrom(InsertDesc(acc, rows[1]), Tail(rows))

\* sort_values('Total Amount (AED)', ascending=False)
sort_values_desc(rows) == SortDescFrom(<<>>, rows)

IsinFilterKeepsAll(rows, name, values) == rows

\* Series.isin(values) as a row filter
IsinFilter(rows, name, values) ==
    SelectSeq(rows, LAMBDA r : r[name] \in values)

\* 'count' of a column: the rows whose cell is not null
CountNotNull(rows, name, nulls) == Len(SelectSeq(rows, LAMBDA r : r[name] \notin nulls))

\* ------------------------------------------------------------------------
\* The rendered output of one execution of the script
\* ------------------------------------------------------------------------
NoMetrics == [gl_codes |-> 0, orders |-> 0, categories |-> 0, total |-> 0, records |-> 0]

\* status:    "prompt" (a file is missing), "no_dump" (gl_dump is None),
\*            "built" (process_gl_data returned)
\* exception: an uncaught exception ended the execution
\* sections:  the metrics and tables that were rendered
EmptyView ==
    [status |-> "prompt", exception |-> FALSE, errors |-> {},
     processed_data |-> <<>>, all_categories |-> <<>>, page |-> "none",
     sections |-> {}, selected_categories |-> <<>>,
     filtered_by_cat |-> <<>>, metrics |-> NoMetrics,
     selected_gls |-> <<>>, final_filtered |-> <<>>,
     gl_summary |-> <<>>, order_summary |-> <<>>,
     search |-> "none", filtered_data |-> <<>>, query_metrics |-> NoMetrics,
     category_summary |-> <<>>, detailed |-> <<>>,
     settings |-> NoMetrics]

\* The widgets an execution rendered: only their state is kept for the
\* next execution
NoWidgets == [radio |-> FALSE, cat |-> {}, query_cat |-> {}, gl |-> {},
              text |-> FALSE]

SelectedCategoriesNoFallback(all_categories, unchecked) ==
    LET sel == SelectSeq([i \in 1..Len(all_categories) |-> <<i, all_categories[i]>>],
                         LAMBDA p : p[1] \notin unchecked)
    IN [i \in 1..Len(sel) |-> sel[i][2]]

\* The checkbox loop of lines 115-123 and 208-217: the categories whose
\* checkbox (keyed by position) is checked, all of them when none is
SelectedCategories(all_categories, unchecked) ==
    LET sel == SelectSeq([i \in 1..Len(all_categories) |-> <<i, all_categories[i]>>],
                         LAMBDA p : p[1] \notin unchecked)
        selected == [i \in 1..Len(sel) |-> sel[i][2]]
    IN IF selected = <<>> THEN all_categories ELSE selected

\* Lines 147-157: the GL codes whose checkbox (keyed by code) is checked
SelectedGls(all_gls, unchecked) ==
    LET selected == SelectSeq(all_gls, LAMBDA g : g \notin unchecked)
    IN IF selected = <<>> THEN all_gls ELSE selected

\* Lines 132-138
Metrics(rows) ==
    [gl_codes |-> NUnique(Column(rows, "GL_Code"), {}),
     orders |-> NUnique(Column(rows, "Order"), {NaNCell}),
     categories |-> 0,
     total |-> SumAmount(rows),
     records |-> Len(rows)]

\* Lines 165-170: one row per GL code (the description and the category of
\* a row are functions of its GL code), in ascending order of the code,
\* then sorted by descending total
GlSummaryRow(rows, g) ==
    LET grp == SelectSeq(rows, LAMBDA r : r.GL_Code = g) IN
    [GL_Code |-> g, GL_Description |-> grp[1].GL_Description,
     Category |-> grp[1].Category, Total |-> SumAmount(grp),
     Records |-> CountNotNull(grp, "Order", {NaNCell})]

\* groupby drops the rows with a null key
GroupableGl(r) == r.GL_Description # NaN /\ r.Category # NaN

gl_summary_of(final_filtered) ==
    LET rows == SelectSeq(final_filtered, GroupableGl)
        keys == SortedInts(Range(Column(rows, "GL_Code")))
    IN sort_values_desc([i \in 1..Len(keys) |-> GlSummaryRow(rows, keys[i])])

\* Lines 186-191: one row per non-null Order, in ascending order of the
\* Order, then sorted by descending total
OrderSummaryRow(rows, o) ==
    LET grp == SelectSeq(rows, LAMBDA r : r.Order = o) IN
    [Order |-> o, Total |-> SumAmount(grp),
     NumGLs |-> CountNotNull(grp, "GL_Code", {})]

order_summary_of(final_filtered) ==
    LET keys == SortedTexts(Range(Column(final_filtered, "Order")) \ {NaNCell})
    IN sort_values_desc([i \in 1..Len(keys) |-> OrderSummaryRow(final_filtered, keys[i])])

\* ------------------------------------------------------------------------
\* The search of the Query Employee page
\* ------------------------------------------------------------------------
\* str.strip()
RECURSIVE LStrip(_)
LStrip(t) == IF t # <<>> /\ t[1] = " " THEN LStrip(Tail(t)) ELSE t

RECURSIVE RStrip(_)
RStrip(t) ==
    IF t # <<>> /\ t[Len(t)] = " " THEN RStrip(SubSeq(t, 1, Len(t) - 1)) ELSE t

Strip(t) == RStrip(LStrip(t))

\* Series.astype(str): the text itself, "nan" for the null
AsTypeStr(cell) == IF cell = NaNCell THEN <<"n", "a", "n">> ELSE cell

\* re.compile(pattern) raises re.error on an unterminated group
RegexInvalid(pat) == \E i \in 1..Len(pat) : pat[i] = "("

\* One pattern character against one text character: "." is any character
RegexCharMatches(pc, tc) == pc = "." \/ pc = tc

\* re.search(pattern, text) for a pattern of literals and "."
RegexSearch(pat, text) ==
    \E pos \in 0..(Len(text) - Len(pat)) :
        \A i \in 1..Len(pat) : RegexCharMatches(pat[i], text[pos + i])

\* Line 231: Order.astype(str).str.contains(pattern, na=False), regex=True
\* being the default of str.contains
StrContainsFilter(rows, pat) ==
    SelectSeq(rows, LAMBDA r : RegexSearch(pat, AsTypeStr(r.Order)))

\* Lines 247-251: one row per non-null Category
CategorySummaryRow(rows, c) ==
    LET grp == SelectSeq(rows, LAMBDA r : r.Category = c) IN
    [Category |-> c, Total |-> SumAmount(grp),
     NumGLs |-> CountNotNull(grp, "GL_Code", {})]

category_summary_of(filtered_data) ==
    LET keys == SortedStrings(Range(Column(filtered_data, "Category")))
    IN [i \in 1..Len(keys) |-> CategorySummaryRow(filtered_data, keys[i])]

\* Lines 257-260: one row per GL code whose description is not null
DetailedRow(rows, g) ==
    LET grp == SelectSeq(rows, LAMBDA r : r.GL_Code = g) IN
    [GL_Code |-> g, GL_Description |-> grp[1].GL_Description,
     Category |-> grp[1].Category, Total |-> SumAmount(grp)]

detailed_of(filtered_data) ==
    LET rows == SelectSeq(filtered_data, GroupableGl)
        keys == SortedInts(Range(Column(rows, "GL_Code")))
    IN [i \in 1..Len(keys) |-> DetailedRow(rows, keys[i])]

\* Lines 234-242
QueryMetrics(rows) ==
    [gl_codes |-> NUnique(Column(rows, "GL_Code"), {}),
     orders |-> 0,
     categories |-> 0,
     total |-> SumAmount(rows),
     records |-> Len(rows)]

\* Lines 281-287
SettingsMetrics(processed_data, all_categories) ==
    [gl_codes |-> NUnique(Column(processed_data, "GL_Code"), {}),
     orders |-> NUnique(Column(processed_data, "Order"), {NaNCell}),
     categories |-> Len(all_categories),
     total |-> 0,
     records |-> Len(processed_data)]

\* ------------------------------------------------------------------------
\* The pages
\* ------------------------------------------------------------------------
\* Line 150-153: gl_name[:30] raises TypeError when the description of the
\* code is the null; the checkboxes before it in the loop were rendered
GlNameOf(rows, g) == SelectSeq(rows, LAMBDA r : r.GL_Code = g)[1].GL_Description

FirstBadGl(rows, all_gls) ==
    LET bad == {i \in 1..Len(all_gls) : GlNameOf(rows, all_gls[i]) = NaN}
    IN IF bad = {} THEN 0 ELSE CHOOSE i \in bad : \A j \in bad : i <= j

\* Lines 109-201
DashboardHome(v, w, catU, glU) ==
    IF NaN \in Range(v.all_categories)
    THEN [view |-> [v EXCEPT !.exception = TRUE], widgets |-> w]
    ELSE
    LET selected_categories == SelectedCategories(v.all_categories, catU)
        filtered_by_cat ==
            IsinFilter(v.processed_data, "Category", Range(selected_categories))
        all_gls == SortedInts(Range(Column(filtered_by_cat, "GL_Code")))
        bad == FirstBadGl(filtered_by_cat, all_gls)
        v1 == [v EXCEPT !.selected_categories = selected_categories,
                        !.filtered_by_cat = filtered_by_cat,
                        !.metrics = Metrics(filtered_by_cat),
                        !.sections = {"metrics"}]
        w1 == [w EXCEPT !.cat = 1..Len(v.all_categories)]
    IN IF bad # 0
       THEN [view |-> [v1 EXCEPT !.exception = TRUE],
             widgets |-> [w1 EXCEPT !.gl = {all_gls[i] : i \in 1..(bad - 1)}]]
       ELSE
       LET selected_gls == SelectedGls(all_gls, glU)
           final_filtered ==
               IsinFilter(filtered_by_cat, "GL_Code", Range(selected_gls))
       IN [view |-> [v1 EXCEPT !.selected_gls = selected_gls,
                               !.final_filtered = final_filtered,
                               !.gl_summary = gl_summary_of(final_filtered),
                               !.order_summary = order_summary_of(final_filtered),
                               !.sections = {"metrics", "gl_summary", "order_summary"}],
           widgets |-> [w1 EXCEPT !.gl = Range(all_gls)]]

\* Lines 203-273
QueryEmployee(v, w, qcatU, order_input, search_btn) ==
    IF NaN \in Range(v.all_categories)
    THEN [view |-> [v EXCEPT !.exception = TRUE], widgets |-> w]
    ELSE
    LET selected == SelectedCategories(v.all_categories, qcatU)
        filtered_by_cat_query ==
            IsinFilter(v.processed_data, "Category", Range(selected))
        v1 == [v EXCEPT !.selected_categories = selected,
                        !.filtered_by_cat = filtered_by_cat_query]
        w1 == [w EXCEPT !.query_cat = 1..Len(v.all_categories), !.text = TRUE]
        pat == Strip(order_input)
    IN IF ~search_btn THEN [view |-> v1, widgets |-> w1]
       ELSE IF pat = <<>>
       THEN [view |-> [v1 EXCEPT !.search = "blank"], widgets |-> w1]
       ELSE IF RegexInvalid(pat)
       THEN [view |-> [v1 EXCEPT !.exception = TRUE], widgets |-> w1]
       ELSE
       LET filtered_data == StrContainsFilter(filtered_by_cat_query, pat) IN
       IF filtered_data = <<>>
       THEN [view |-> [v1 EXCEPT !.search = "notfound"], widgets |-> w1]
       ELSE [view |-> [v1 EXCEPT !.search = "found",
                                 !.filtered_data = filtered_data,
                                 !.query_metrics = QueryMetrics(filtered_data),
                                 !.category_summary = category_summary_of(filtered_data),
                                 !.detailed = detailed_of(filtered_data),
                                 !.sections = {"query_metrics", "category_summary",
                                               "detailed"}],
             widgets |-> w1]

\* Lines 275-298: ", ".join(all_categories) raises TypeError on the null
Settings(v, w) ==
    LET v1 == [v EXCEPT !.settings = SettingsMetrics(v.processed_data, v.all_categories),
                        !.sections = {"settings"}]
    IN [view |-> [v1 EXCEPT !.exception = NaN \in Range(v.all_categories)],
        widgets |-> w]

\* ------------------------------------------------------------------------
\* One execution of the script (lines 93-309)
\* ------------------------------------------------------------------------
\* Line 99: sorted() raises TypeError when the null stands among strings
AllCategoriesRaises(cats) == NaN \in cats /\ cats # {NaN}

AllCategoriesWithUncategorized(processed_data) ==
    LET cats == Range(Column(processed_data, "Category"))
    IN IF cats = {NaN} THEN <<NaN>> ELSE SortedStrings(cats)

AllCategories(processed_data) ==
    LET cats == Range(Column(processed_data, "Category")) \ {"Uncategorized"}
    IN IF cats = {NaN} THEN <<NaN>> ELSE SortedStrings(cats)

RunScript(dump, desc, pg, catU, qcatU, glU, order_input, search_btn) ==
    IF dump = NoFile \/ desc = NoFile
    THEN [view |-> EmptyView, widgets |-> NoWidgets]
    ELSE
    LET ld == load_gl_dump_from_upload(dump)
        lg == load_gl_descriptions_from_upload(desc)
        v0 == [EmptyView EXCEPT !.errors = ld.errors \cup lg.errors]
    IN IF ld.isNone
       THEN [view |-> [v0 EXCEPT !.status = "no_dump"], widgets |-> NoWidgets]
       ELSE
       LET pr == process_gl_data(ld.df, lg.gl_name_dict, lg.gl_category_dict) IN
       IF pr.raised
       THEN [view |-> [v0 EXCEPT !.status = "failed", !.exception = TRUE],
             widgets |-> NoWidgets]
       ELSE IF AllCategoriesRaises(Range(Column(pr.data, "Category")) \ {"Uncategorized"})
       THEN [view |-> [v0 EXCEPT !.status = "failed", !.exception = TRUE,
                                 !.processed_data = pr.data],
             widgets |-> NoWidgets]
       ELSE
       LET v == [v0 EXCEPT !.status = "built", !.processed_data = pr.data,
                           !.all_categories = AllCategories(pr.data),
                           !.page = pg]
           w == [NoWidgets EXCEPT !.radio = TRUE]
       IN CASE pg = "Home" -> DashboardHome(v, w, catU, glU)
            [] pg = "Query" -> QueryEmployee(v, w, qcatU, order_input, search_btn)
            [] pg = "Settings" -> Settings(v, w)

\* ------------------------------------------------------------------------
\* State
\* ------------------------------------------------------------------------
VARIABLES
    uploaded_gl_dump,     \* the file in the first uploader, NoFile if none
    uploaded_gl_desc,     \* the file in the second uploader, NoFile if none
    page,                 \* the value of the sidebar radio
    cat_unchecked,        \* positions i whose checkbox cat_{i-1} is unchecked
    query_cat_unchecked,  \* positions i whose checkbox query_cat_{i-1} is unchecked
    gl_unchecked,         \* GL codes whose checkbox gl_{code} is unchecked
    order_input,          \* the text of the Order input
    widgets,              \* the widgets the last execution rendered
    view                  \* what the last execution rendered

vars == <<uploaded_gl_dump, uploaded_gl_desc, page, cat_unchecked,
          query_cat_unchecked, gl_unchecked, order_input, widgets, view>>

\* A re-execution of the script with the given widget values; the state of
\* a widget the execution does not render is discarded, so the widget is
\* back to its default when it is rendered again
Rerun(dump, desc, pg, catU, qcatU, glU, input, search_btn) ==
    LET r == RunScript(dump, desc, pg, catU, qcatU, glU, input, search_btn) IN
    /\ uploaded_gl_dump' = dump
    /\ uploaded_gl_desc' = desc
    /\ page' = IF r.widgets.radio THEN pg ELSE "Home"
    /\ cat_unchecked' = catU \cap r.widgets.cat
    /\ query_cat_unchecked' = qcatU \cap r.widgets.query_cat
    /\ gl_unchecked' = glU \cap r.widgets.gl
    /\ order_input' = IF r.widgets.text THEN input ELSE <<>>
    /\ widgets' = r.widgets
    /\ view' = r.view

Init ==
    /\ uploaded_gl_dump = NoFile
    /\ uploaded_gl_desc = NoFile
    /\ page = "Home"
    /\ cat_unchecked = {}
    /\ query_cat_unchecked = {}
    /\ gl_unchecked = {}
    /\ order_input = <<>>
    /\ widgets = NoWidgets
    /\ view = EmptyView

\* ------------------------------------------------------------------------
\* Inputs
\* ------------------------------------------------------------------------
GLCodes == {10, 20}

OkDump(rows) == [kind |-> "ok", ncols |-> amount_col + 1, rows |-> rows]
NarrowDump(rows) == [kind |-> "ok", ncols |-> amount_col, rows |-> rows]
BadFile == [kind |-> "bad", ncols |-> 0, rows |-> <<>>]
OkDesc(n, rows) == [kind |-> "ok", ncols |-> n, rows |-> rows]

\* Dumps and description tables for the screens: every amount numeric,
\* every name and category present, the Order cell possibly empty
PlainDumpRows ==
    {r \in [gl : GLCodes, order : {<<"1", "2">>, NaNCell}, amount : {<<"5">>}] :
        r.order = NaNCell => r.gl = 10}

PlainDescRows ==
    {[code |-> 10, name |-> "Travel Recovery", cat |-> "Travel"],
     [code |-> 20, name |-> "Fuel Recovery", cat |-> "Fuel"],
     [code |-> 20, name |-> "Travel Recovery", cat |-> "Travel"]}

PlainDumpFiles ==
    {OkDump(rows) : rows \in SeqsUpTo(PlainDumpRows, MaxDumpRows)} \cup {BadFile}

PlainDescFiles ==
    {OkDesc(3, rows) : rows \in SeqsUpTo(PlainDescRows, MaxDescRows)} \cup {BadFile}

\* Dumps and description tables for the loading pipeline: amounts that are
\* no number, empty cells, tables with missing columns
RawDumpRows ==
    [gl : GLCodes, order : {<<"1", "2">>},
     amount : {<<"5">>, <<"-", "3">>, <<"N", "/", "A">>}]

RawDescRows ==
    [code : GLCodes, name : {"Travel Recovery", NaN}, cat : {"Travel", NaN}]

RawDumpFiles ==
    {OkDump(rows) : rows \in SeqsUpTo(RawDumpRows, MaxDumpRows)}
    \cup {NarrowDump(rows) :
            rows \in SeqsUpTo([gl : GLCodes, order : {<<"1", "2">>}, amount : {NaNCell}],
                              MaxDumpRows)}
    \cup {BadFile}

RawDescFiles ==
    {OkDesc(3, rows) : rows \in SeqsUpTo(RawDescRows, MaxDescRows)}
    \cup {OkDesc(2, rows) :
            rows \in SeqsUpTo({r \in RawDescRows : r.cat = NaN}, MaxDescRows)}
    \cup {OkDesc(1, rows) :
            rows \in SeqsUpTo({r \in RawDescRows : r.cat = NaN /\ r.name = NaN},
                              MaxDescRows)}
    \cup {BadFile}

\* Texts typed into the Order input
Inputs ==
    {<<>>, <<" ">>, <<" ", "2">>, <<"2", "1">>, <<".">>, <<"(">>}

\* ------------------------------------------------------------------------
\* Actions: one user interaction and the re-execution it triggers
\* ------------------------------------------------------------------------
UploadDumpFrom(Files) ==
    /\ uploaded_gl_dump = NoFile
    /\ \E f \in Files :
          Rerun(f, uploaded_gl_desc, page, cat_unchecked, query_cat_unchecked,
                gl_unchecked, order_input, FALSE)

UploadDescFrom(Files) ==
    /\ uploaded_gl_desc = NoFile
    /\ \E f \in Files :
          Rerun(uploaded_gl_dump, f, page, cat_unchecked, query_cat_unchecked,
                gl_unchecked, order_input, FALSE)

UploadDump == UploadDumpFrom(PlainDumpFiles)

UploadDesc == UploadDescFrom(PlainDescFiles)

UploadRawDump == UploadDumpFrom(RawDumpFiles)

UploadRawDesc == UploadDescFrom(RawDescFiles)

RemoveDump ==
    /\ uploaded_gl_dump # NoFile
    /\ Rerun(NoFile, uploaded_gl_desc, page, cat_unchecked, query_cat_unchecked,
             gl_unchecked, order_input, FALSE)

RemoveDesc ==
    /\ uploaded_gl_desc # NoFile
    /\ Rerun(uploaded_gl_dump, NoFile, page, cat_unchecked, query_cat_unchecked,
             gl_unchecked, order_input, FALSE)

SelectPage ==
    /\ widgets.radio
    /\ \E p \in {"Home", "Query", "Settings"} \ {page} :
          Rerun(uploaded_gl_dump, uploaded_gl_desc, p, cat_unchecked,
                query_cat_unchecked, gl_unchecked, order_input, FALSE)

Toggle(S, x) == IF x \in S THEN S \ {x} ELSE S \cup {x}

ToggleCategory ==
    \E i \in widgets.cat :
        Rerun(uploaded_gl_dump, uploaded_gl_desc, page, Toggle(cat_unchecked, i),
              query_cat_unchecked, gl_unchecked, order_input, FALSE)

ToggleQueryCategory ==
    \E i \in widgets.query_cat :
        Rerun(uploaded_gl_dump, uploaded_gl_desc, page, cat_unchecked,
              Toggle(query_cat_unchecked, i), gl_unchecked, order_input, FALSE)

ToggleGl ==
    \E g \in widgets.gl :
        Rerun(uploaded_gl_dump, uploaded_gl_desc, page, cat_unchecked,
              query_cat_unchecked, Toggle(gl_unchecked, g), order_input, FALSE)

TypeOrder ==
    /\ widgets.text
    /\ \E t \in Inputs \ {order_input} :
          Rerun(uploaded_gl_dump, uploaded_gl_desc, page, cat_unchecked,
                query_cat_unchecked, gl_unchecked, t, FALSE)

Search ==
    /\ widgets.text
    /\ Rerun(uploaded_gl_dump, uploaded_gl_desc, page, cat_unchecked,
             query_cat_unchecked, gl_unchecked, order_input, TRUE)

Next ==
    \/ UploadDump
    \/ UploadDesc
    \/ RemoveDump
    \/ RemoveDesc
    \/ SelectPage
    \/ ToggleCategory
    \/ ToggleQueryCategory
    \/ ToggleGl
    \/ TypeOrder
    \/ Search

Spec == Init /\ [][Next]_vars

\* The loading pipeline alone, on the raw files
NextLoad ==
    \/ UploadRawDump
    \/ UploadRawDesc
    \/ RemoveDump
    \/ RemoveDesc

SpecLoad == Init /\ [][NextLoad]_vars

\* ------------------------------------------------------------------------
\* Properties
\* ------------------------------------------------------------------------
HomeRendered == view.page = "Home" /\ "metrics" \in view.sections
QueryRendered == view.page = "Query" /\ ~(NaN \in Range(view.all_categories))
SameFiles ==
    /\ uploaded_gl_dump' = uploaded_gl_dump
    /\ uploaded_gl_desc' = uploaded_gl_desc

WithoutCategory(rows, c) == SelectSeq(rows, LAMBDA r : r.Category # c)

Categorized(rows) == SelectSeq(rows, LAMBDA r : r.Category # "Uncategorized")

Boxes == 1..Len(view.all_categories)

\* A step that unchecks the checkbox at position i of the page pg
UncheckStep(pg, unchecked, uncheckedNext, i) ==
    /\ SameFiles
    /\ view.page = pg /\ view'.page = pg
    /\ ~view.exception /\ ~view'.exception
    /\ i \in Boxes /\ i \notin unchecked
    /\ uncheckedNext = unchecked \cup {i}

RemovesExactly(i) ==
    view'.filtered_by_cat = WithoutCategory(view.filtered_by_cat, view.all_categories[i])

\* C1 as stated: on Dashboard Home and on Query Employee, unchecking one
\* category checkbox removes exactly the rows of that category from the
\* filtered view, and the rows of every other category stay in it.
C1_Original ==
    [][\A i \in Boxes :
          /\ UncheckStep("Home", cat_unchecked, cat_unchecked', i) => RemovesExactly(i)
          /\ UncheckStep("Query", query_cat_unchecked, query_cat_unchecked', i)
                => RemovesExactly(i)]_vars

\* C1 amended: unchecking one category checkbox while another one stays
\* checked removes exactly the rows of that category from the filtered view
\* and leaves the other rows in it; unchecking the last checked checkbox
\* puts the rows of every listed category back into the filtered view.
C1_Unchecked(unchecked, uncheckedNext, i) ==
    IF uncheckedNext = Boxes
    THEN view'.filtered_by_cat = Categorized(view.processed_data)
    ELSE RemovesExactly(i)

C1_Amended ==
    [][\A i \in Boxes :
          /\ UncheckStep("Home", cat_unchecked, cat_unchecked', i)
                => C1_Unchecked(cat_unchecked, cat_unchecked', i)
          /\ UncheckStep("Query", query_cat_unchecked, query_cat_unchecked', i)
                => C1_Unchecked(query_cat_unchecked, query_cat_unchecked', i)]_vars

\* C1 witness: on Dashboard Home one of two checkboxes is unchecked, and the
\* filtered view holds the rows of the other category and lacks rows of
\* the normalized table
C1_Witness ==
    /\ HomeRendered
    /\ Len(view.all_categories) = 2
    /\ Cardinality(cat_unchecked) = 1
    /\ view.filtered_by_cat # <<>>
    /\ Len(view.filtered_by_cat) < Len(Categorized(view.processed_data))

RECURSIVE SumField(_, _)
SumField(rows, name) ==
    IF rows = <<>> THEN 0 ELSE rows[1][name] + SumField(Tail(rows), name)

\* C2 as stated: on Dashboard Home the totals of the by-GL summary add up
\* to the sum of Amount over the filtered table, and its record counts add
\* up to the number of rows of the filtered table.
C2_Claim ==
    "gl_summary" \in view.sections =>
        /\ SumField(view.gl_summary, "Total") = SumAmount(view.final_filtered)
        /\ SumField(view.gl_summary, "Records") = Len(view.final_filtered)

\* The texts of the model that denote a number
NumericCells == {<<"5">>, <<"-", "3">>}

DumpRowCount == Len(uploaded_gl_dump.rows)

Tables ==
    {view.processed_data, view.filtered_by_cat, view.final_filtered,
     view.filtered_data}

\* C3: a dump row whose amount cell is not numeric is in no table of the
\* rendered output, and every row of the normalized table has a numeric
\* Amount.
C3_NonNumericDropped ==
    /\ \A i \in 1..DumpRowCount :
          uploaded_gl_dump.rows[i].amount \notin NumericCells =>
              \A t \in Tables : \A k \in 1..Len(t) : t[k].idx # i
    /\ \A k \in 1..Len(view.processed_data) :
          /\ ~view.processed_data[k].Amount.nan
          /\ uploaded_gl_dump.rows[view.processed_data[k].idx].amount \in NumericCells
    /\ view.status = "built" =>
          Len(view.processed_data) =
              Cardinality({i \in 1..DumpRowCount :
                              uploaded_gl_dump.rows[i].amount \in NumericCells})

\* C3 witness: a dump with a numeric and a non-numeric amount was
\* normalized, and the normalized table is shorter than the dump
C3_Witness ==
    /\ view.status = "built"
    /\ view.processed_data # <<>>
    /\ Len(view.processed_data) < DumpRowCount
    /\ \E i \in 1..DumpRowCount : uploaded_gl_dump.rows[i].amount = <<"N", "/", "A">>

\* The description rows of a GL code
DescRowsOf(g) ==
    {i \in 1..Len(uploaded_gl_desc.rows) : uploaded_gl_desc.rows[i].code = g}

\* C4 as stated: every row of the normalized table has a non-empty Category,
\* a value mapped to its GL code or "Uncategorized", and a non-empty
\* GL_Description, a name mapped to its GL code or "Unknown GL".
C4_Claim ==
    \A k \in 1..Len(view.processed_data) :
        LET row == view.processed_data[k]
            occ == DescRowsOf(row.GL_Code)
        IN /\ row.Category # NaN
           /\ row.Category \in
                 {uploaded_gl_desc.rows[i].cat : i \in occ} \cup {"Uncategorized"}
           /\ row.GL_Description # NaN
           /\ row.GL_Description \in
                 {uploaded_gl_desc.rows[i].name : i \in occ} \cup {"Unknown GL"}

\* C5 as stated: with both files supplied, when either of them fails to
\* parse an error is shown and nothing is built or rendered.
C5_Claim ==
    (/\ uploaded_gl_dump # NoFile /\ uploaded_gl_desc # NoFile
     /\ (uploaded_gl_dump.kind = "bad" \/ uploaded_gl_desc.kind = "bad"))
    => /\ view.errors # {}
       /\ view.status # "built"
       /\ view.processed_data = <<>>
       /\ view.sections = {}

RowsOfOrder(rows, o) == SelectSeq(rows, LAMBDA r : r.Order = o)

\* C6 as stated: in the by-Order summary, every Order of the filtered table
\* has one row, whose 'Number of GLs' is the number of distinct GL codes of
\* the Order's rows and whose total is the sum of their amounts, and the
\* rows are in descending order of total.
C6_Claim ==
    "order_summary" \in view.sections =>
        /\ {view.order_summary[k].Order : k \in 1..Len(view.order_summary)}
              = Range(Column(view.final_filtered, "Order")) \ {NaNCell}
        /\ \A k \in 1..Len(view.order_summary) :
              LET grp == RowsOfOrder(view.final_filtered, view.order_summary[k].Order)
              IN /\ view.order_summary[k].NumGLs
                      = Cardinality(Range(Column(grp, "GL_Code")))
                 /\ view.order_summary[k].Total = SumAmount(grp)
        /\ \A k \in 1..(Len(view.order_summary) - 1) :
              view.order_summary[k].Total >= view.order_summary[k + 1].Total

\* The text sub as a contiguous substring of the text
Contains(text, sub) ==
    \E pos \in 0..(Len(text) - Len(sub)) :
        \A i \in 1..Len(sub) : text[pos + i] = sub[i]

\* The rows whose Order, as a string, contains the text
LiteralMatches(rows, sub) ==
    SelectSeq(rows, LAMBDA r : Contains(AsTypeStr(r.Order), sub))

\* C7 as stated: pressing Search with a non-blank input shows exactly the
\* rows of the category-filtered view whose Order contains the trimmed
\* input as a substring, and the 'not found' warning when there is none.
C7_Claim ==
    [][(Search /\ Strip(order_input) # <<>>) =>
          LET expected == LiteralMatches(view'.filtered_by_cat, Strip(order_input))
          IN IF expected = <<>>
             THEN view'.search = "notfound" /\ ~view'.exception
             ELSE view'.search = "found" /\ view'.filtered_data = expected]_vars

LastOf(S) == CHOOSE i \in S : \A j \in S : j <= i

\* C8: a normalized row whose GL code stands in several description rows
\* has the name and the category of the last of them; with a description
\* table of fewer than 3 columns every normalized row is "Uncategorized".
C8_LastOccurrenceWins ==
    \A k \in 1..Len(view.processed_data) :
        LET row == view.processed_data[k]
            occ == DescRowsOf(row.GL_Code)
        IN /\ (uploaded_gl_desc.ncols >= 2 /\ occ # {}) =>
                row.GL_Description = uploaded_gl_desc.rows[LastOf(occ)].name
           /\ (uploaded_gl_desc.ncols >= 3 /\ occ # {}) =>
                row.Category = uploaded_gl_desc.rows[LastOf(occ)].cat
           /\ uploaded_gl_desc.ncols < 3 => row.Category = "Uncategorized"

\* C8 witness: a normalized row whose GL code has two description rows of
\* different names and categories
C8_Witness ==
    \E k \in 1..Len(view.processed_data) :
        LET occ == DescRowsOf(view.processed_data[k].GL_Code) IN
        /\ Cardinality(occ) = 2
        /\ \E i, j \in occ :
              /\ uploaded_gl_desc.rows[i].cat # uploaded_gl_desc.rows[j].cat
              /\ uploaded_gl_desc.rows[i].name # uploaded_gl_desc.rows[j].name

\* What the page pg renders with every checkbox checked
AllChecked(pg) ==
    RunScript(uploaded_gl_dump, uploaded_gl_desc, pg, {}, {}, {}, order_input,
              FALSE).view

\* What Dashboard Home renders with the category checkboxes as they are and
\* every GL checkbox checked
AllGlsChecked ==
    RunScript(uploaded_gl_dump, uploaded_gl_desc, "Home", cat_unchecked, {}, {},
              order_input, FALSE).view

\* C9: with every category checkbox unchecked the filtered view is the one
\* of every checkbox checked, on both pages; with every GL checkbox
\* unchecked the final table is the one of every GL checkbox checked; no
\* selection empties a view that is not empty with every checkbox checked.
C9_EmptySelectionIsFull ==
    /\ (HomeRendered /\ cat_unchecked = Boxes) =>
          view.filtered_by_cat = AllChecked("Home").filtered_by_cat
    /\ (QueryRendered /\ query_cat_unchecked = Boxes) =>
          view.filtered_by_cat = AllChecked("Query").filtered_by_cat
    /\ ("gl_summary" \in view.sections /\ gl_unchecked = widgets.gl) =>
          view.final_filtered = AllGlsChecked.final_filtered
    /\ (HomeRendered \/ QueryRendered) =>
          (AllChecked(view.page).filtered_by_cat # <<>> => view.filtered_by_cat # <<>>)
    /\ "gl_summary" \in view.sections =>
          (AllChecked("Home").final_filtered # <<>> => view.final_filtered # <<>>)

\* C9 witness: on Dashboard Home every category checkbox and every GL
\* checkbox is unchecked and the final table is not empty
C9_Witness ==
    /\ "gl_summary" \in view.sections
    /\ Boxes # {} /\ cat_unchecked = Boxes
    /\ widgets.gl # {} /\ gl_unchecked = widgets.gl
    /\ view.final_filtered # <<>>

Uncategorized(rows) == SelectSeq(rows, LAMBDA r : r.Category = "Uncategorized")

\* C10: under every selection no "Uncategorized" row is in a filtered view,
\* a summary or a search result of Dashboard Home and Query Employee, and
\* the Records metric counts none; the Settings 'Total Records' counts them
\* on top of the Records of Dashboard Home with every checkbox checked.
C10_UncategorizedHidden ==
    /\ \A t \in {view.filtered_by_cat, view.final_filtered, view.filtered_data,
                 view.gl_summary, view.category_summary, view.detailed} :
          \A k \in 1..Len(t) : t[k].Category # "Uncategorized"
    /\ "Uncategorized" \notin Range(view.all_categories)
    /\ HomeRendered => view.metrics.records <= Len(Categorized(view.processed_data))
    /\ SumField(view.order_summary, "Total") <= SumAmount(Categorized(view.processed_data))
    /\ "settings" \in view.sections =>
          view.settings.records =
              AllChecked("Home").metrics.records + Len(Uncategorized(view.processed_data))

\* C10 witness: Settings shows more records than Dashboard Home does with
\* every checkbox checked, which shows some
C10_Witness ==
    /\ "settings" \in view.sections
    /\ AllChecked("Home").metrics.records > 0
    /\ view.settings.records > AllChecked("Home").metrics.records

====
